---- MODULE Spec2Model ----
(***************************************************************************)
(* OVMS smart-charging scheduler.                                          *)
(*                                                                         *)
(* Two generations of the script live in the repository and both are       *)
(* modelled here:                                                          *)
(*   - the v1.x "climate wake retry" script (timer emulation, interruption *)
(*     recovery, plug-in scheduling): variables config, state and the      *)
(*     specification Spec / LiveSpec;                                      *)
(*   - charging.js (ready-by optimizer, window based checkSchedule):       *)
(*     variables prefixed cj and the specification SpecCJ.                 *)
(* SpecOpt runs the schedule calculation of each script on a range of      *)
(* configurations, charge levels and times of day.                         *)
(*                                                                         *)
(* Time.  Date.now() is kept relative to the current ticker.60 event: a    *)
(* timer stores executeTime - Date.now() in milliseconds, a tick first     *)
(* moves the clock by TickMs.  Timers are only ever scheduled from inside  *)
(* a tick (monitorSOC and the timer callbacks), so this is a change of     *)
(* origin and not an approximation.  Wall-clock time of day is an input    *)
(* of the handlers that read it (minutes 0..1439).                         *)
(***************************************************************************)
EXTENDS Integers, Sequences, FiniteSets, TLC

\* ------------------------------------------------------------------------
\* Bounds of the model
\* ------------------------------------------------------------------------

\* A scheduled session is started only while fewer timers than this have
\* been created so far (timerCounter grows without bound in the script).
MaxTimerCounter == 1

\* State of charge readings of the vehicle (percent).
SOCValues == {50, 80}

\* Times of day (minute of day) at which checkSchedule of the v1.x script runs.
CheckMinutes == {0, 720, 1379, 1380, 1410}

\* outstanding timeouts of the charge-start handler
MaxAutoStopTimers == 1
\* inputs of the charging.js state machine
CJSOCValues == {10, 50, 76, 80}
CJMinutes == {120, 330, 420, 1410}
CJReadyBys == {<<7, 30>>, <<4, 0>>, <<24, 0>>}
CJLimits == {<<80, 75>>, <<80, 80>>, <<76, 90>>, <<10, 75>>}
\* inputs of the schedule calculations: windows <<startHour, startMinute,
\* endHour, endMinute>>, deadlines <<hour, minute>>, rates in tenths of a kW
OptWindows == {<<23, 30, 5, 30>>, <<1, 0, 5, 0>>, <<22, 0, 22, 0>>}
OptReadyBys == {<<7, 30>>, <<4, 0>>, <<23, 30>>, <<0, 10>>}
OptRates10 == {10, 18, 70}
OptTargets == {80, 100}
OptSOCValues == {10, 50, 65, 79, 80}
OptMinutes == {0, 120, 329, 330, 449, 450, 1200, 1280, 1409, 1410, 1439}
\* windows <<startHour, startMinute, endHour, endMinute>> and times of day
\* at which the window-membership test is exercised
WinPairs == {<<23, 30, 5, 30>>, <<5, 30, 23, 30>>, <<0, 0, 5, 30>>, <<5, 30, 0, 0>>,
             <<0, 0, 0, 0>>, <<5, 30, 5, 30>>, <<23, 30, 23, 30>>, <<23, 30, 0, 0>>}
WinMinutes == {0, 1, 329, 330, 331, 1409, 1410, 1439}
\* arguments given to the configuration setters: target SOC, <<hour, minute>>,
\* <<startHour, startMinute, endHour, endMinute>>
SetTargets == {19, 20, 100, 101}
SetTimes == {<<0, 0>>, <<23, 59>>, <<-1, 0>>, <<24, 0>>, <<7, -1>>, <<7, 60>>}
SetWindows == {<<0, 0, 23, 59>>, <<22, 0, 6, 0>>, <<24, 0, 5, 30>>, <<23, 60, 5, 30>>,
               <<23, 30, -1, 0>>, <<23, 30, 5, 60>>}

\* ------------------------------------------------------------------------
\* Program constants of the v1.x script
\* ------------------------------------------------------------------------
\* ticker.60 events followed by the timer specification
MaxTicks == 3
\* most entries of state.pendingTimers it starts from
MaxPending == 3
\* the entries it starts from: a closure and the milliseconds left until its
\* due time (the retry closure is scheduled 2, 5 or 10 minutes ahead, the
\* climate-off closure 10 s, the wake-done closure 5 s)
TimerEntries == {<<"retry", 60000>>, <<"retry", 60001>>, <<"retry", 120000>>,
                 <<"climateOff", 10000>>, <<"wakeDone", 5000>>}

\* inputs of the cost breakdown: cheap windows, session starts (minutes since
\* midnight) and session lengths (minutes)
CostWindows == {<<23, 30, 5, 30>>, <<1, 0, 5, 0>>, <<22, 0, 22, 0>>}
CostStarts == {0, 30, 60, 299, 300, 1200, 1410, 1425}
CostDurations == {0, 15, 90, 360, 600, 1500}

\* times of day and SOC values of the v1.x schedule-check specification
SchedMinutes == {0, 1, 925, 926, 956, 986, 987, 1379, 1380, 1410, 1439}
SchedSOCValues == {10, 50, 65, 79}

TickMs == 60000
ClimateOnMs == 10000
ClimateOffMs == 5000
maxAttempts == 3
DefaultBatteryKWh == 40
DefaultSOH == 100

NULL == -1

VARIABLES
    config,     \* v1.x: config object
    state,      \* v1.x: state object
    pilot,      \* metric v.c.pilot
    charging,   \* metric v.c.charging
    soc,        \* metric v.b.soc
    cmds,       \* OvmsCommand.Exec calls made by the last handler, in order
    notes,      \* notifications raised by the last handler, in order
    op,         \* the handler that ran last
    failedLatch, \* history: a terminal failure was notified and no plug-in event came since
    timerLog,   \* history: for each ticker.60 event so far, the deferred callbacks
                \* it invoked, in invocation order
    cjConfig,   \* charging.js: config object
    cj,         \* charging.js: manualChargeActive, scheduledChargeActive,
                \* chargingSession.active, the ticker.60 subscription of
                \* monitorSOC and the pending setTimeout callbacks
    cjNow,      \* wall-clock minute of day read by the charging.js handlers
    cjOptimal,  \* result of calculateOptimalStart in the last handler that
                \* called it, with the inputs it read
    cjCost      \* charging.js: the last cost breakdown computed by
                \* calculateChargeCost, with the interval it was asked about

v1Vars == <<config, state, failedLatch, timerLog>>

cjVars == <<cjConfig, cj, cjNow, cjOptimal, cjCost>>

vars == <<config, state, pilot, charging, soc, cmds, notes, op, failedLatch, timerLog,
          cjConfig, cj, cjNow, cjOptimal, cjCost>>

\* ------------------------------------------------------------------------
\* v1.x script: helpers
\* ------------------------------------------------------------------------

CeilDiv(a, b) == IF a <= 0 THEN -((-a) \div b) ELSE (a + b - 1) \div b

\* A handler is a function from machine to machine; a machine is the state
\* object plus the commands and notifications emitted so far by the handler
\* and the deferred callbacks it has invoked so far.
Machine(st) == [state |-> st, cmds |-> <<>>, notes |-> <<>>, fired |-> <<>>]

Exec(m, command) == [m EXCEPT !.cmds = Append(@, command)]

\* a notification: its kind and, for "interrupted", the attempt number it carries
Msg(kind) == [kind |-> kind, attempt |-> 0]

notify(m, message) == [m EXCEPT !.notes = Append(@, message)]

timeToMinutes(hour, minute) == hour * 60 + minute

\* the % operator of the script: the result takes the sign of the dividend
JsMod(a, b) == IF a >= 0 THEN a % b ELSE -((-a) % b)

minutesToTime(mins) == [hour |-> JsMod(mins \div 60, 24), minute |-> JsMod(mins, 60)]

\* calculateEffectiveCapacity, in kWh (battery and SOH auto-detected,
\* metrics absent: the defaults)
calculateEffectiveCapacity(cfg) ==
    LET nominal == IF cfg.batteryOverride > 0 THEN cfg.batteryOverride ELSE DefaultBatteryKWh
        soh == IF cfg.sohOverride > 0 THEN cfg.sohOverride ELSE DefaultSOH
    IN  [num |-> nominal * soh, den |-> 100]

\* Math.ceil(calculateChargeDuration(calculateEnergyNeeded(..)) * 60), exactly:
\* kWh = (target - current)/100 * capacity, hours = kWh / chargerRate.
\* chargerRate is kept in tenths of a kW.
hoursNeededMins(cfg, currentSOC, targetSOC) ==
    LET cap == calculateEffectiveCapacity(cfg)
    IN  CeilDiv((targetSOC - currentSOC) * cap.num * 60 * 10,
                100 * cap.den * cfg.chargerRate10)

calculateSchedule(cfg, currentSOC, targetSOC) ==
    LET readyByMin == timeToMinutes(cfg.readyByHour, cfg.readyByMinute)
        cheapStartMin == timeToMinutes(cfg.cheapWindowStart.hour, cfg.cheapWindowStart.minute)
        mins == hoursNeededMins(cfg, currentSOC, targetSOC)
        latest0 == readyByMin - mins
        latestStartMin == IF latest0 < 0 THEN latest0 + 1440 ELSE latest0
        mustStartEarly == mins > (readyByMin - cheapStartMin + 1440) % 1440
        scheduledStartMin == IF mustStartEarly THEN latestStartMin ELSE cheapStartMin
        end0 == scheduledStartMin + mins
        scheduledEndMin == IF end0 >= 1440 THEN end0 - 1440 ELSE end0
    IN  [hoursNeededMins |-> mins,
         scheduledStartMin |-> scheduledStartMin,
         scheduledEndMin |-> scheduledEndMin,
         mustStartEarly |-> mustStartEarly]

\* ------------------------------------------------------------------------
\* v1.x script: timer emulation
\* ------------------------------------------------------------------------

\* variant: the timer id is handed out but the entry is never stored
scheduleAfterDelay_NoPush(m, callback, delayMs) ==
    [m EXCEPT !.state.timerCounter = m.state.timerCounter + 1]

scheduleAfterDelay(m, callback, delayMs) ==
    LET timerId == m.state.timerCounter + 1
    IN  [m EXCEPT !.state.timerCounter = timerId,
                  !.state.pendingTimers =
                      Append(@, [id |-> timerId, callback |-> callback,
                                 executeTime |-> delayMs])]

\* The clock moves by one ticker period: every stored due time gets
\* TickMs closer.
AdvanceClock(st) ==
    [st EXCEPT !.pendingTimers =
        [i \in 1..Len(@) |-> [@[i] EXCEPT !.executeTime = @ - TickMs]]]

\* ------------------------------------------------------------------------
\* v1.x script: climate wake and interruption recovery
\* ------------------------------------------------------------------------

\* variant: the reset leaves the monitor running
ResetSession_KeepMonitoring(m) ==
    [m EXCEPT !.state.scheduledChargeActive = FALSE,
              !.state.retryCount = 0]

ResetSession(m) ==
    [m EXCEPT !.state.scheduledChargeActive = FALSE,
              !.state.monitoring = FALSE,
              !.state.retryCount = 0]

performClimateWake(m) ==
    scheduleAfterDelay(Exec(m, "climatecontrol on"), "climateOff", ClimateOnMs)

\* variant: the charge is restarted together with the climate-off command
climateOffCallback_NoWait(m) ==
    Exec(Exec(m, "climatecontrol off"), "charge start")

\* first deferred function of performClimateWake
climateOffCallback(m) ==
    scheduleAfterDelay(Exec(m, "climatecontrol off"), "wakeDone", ClimateOffMs)

\* second deferred function of performClimateWake, with the callback that
\* attemptChargeRestart passes in
wakeDoneCallback(m, env) ==
    IF env.throws THEN Exec(m, "charge start")
    ELSE notify(Exec(m, "charge start"), Msg("restarted"))

attemptChargeRestart(m, env) ==
    IF ~env.pilot THEN ResetSession(notify(m, Msg("notPluggedIn")))
    ELSE IF env.soc >= env.targetSOC THEN ResetSession(notify(m, Msg("targetReached")))
    ELSE performClimateWake(m)

\* variant: every retry waits two minutes
retryDelayMinutes_Flat(retryCount) == 2

\* the delay table of handleChargeInterruption, in minutes
retryDelayMinutes(retryCount) ==
    IF retryCount = 1 THEN 2 ELSE IF retryCount = 2 THEN 5 ELSE 10

\* variant: giving up forgets to clear the retry counter
handleChargeInterruption_NoReset(m, env) ==
    IF ~m.state.scheduledChargeActive THEN m
    ELSE IF m.state.manualOverride
    THEN [notify(m, Msg("noAutoRetry")) EXCEPT !.state.scheduledChargeActive = FALSE,
                                              !.state.monitoring = FALSE]
    ELSE LET m1 == [m EXCEPT !.state.retryCount = @ + 1]
         IN  IF m1.state.retryCount > maxAttempts
             THEN [notify(m1, Msg("failed")) EXCEPT !.state.scheduledChargeActive = FALSE,
                                                    !.state.monitoring = FALSE]
             ELSE LET m2 == notify(m1, [kind |-> "interrupted", attempt |-> m1.state.retryCount])
                      m3 == scheduleAfterDelay(m2, "retry",
                                retryDelayMinutes(m1.state.retryCount) * 60 * 1000)
                  IN  [m3 EXCEPT !.state.retryTimerId = m3.state.timerCounter]

handleChargeInterruption(m, env) ==
    IF ~m.state.scheduledChargeActive THEN m
    ELSE IF m.state.manualOverride
    THEN [notify(m, Msg("noAutoRetry")) EXCEPT !.state.scheduledChargeActive = FALSE,
                                          !.state.monitoring = FALSE]
    ELSE LET m1 == [m EXCEPT !.state.retryCount = @ + 1]
         IN  IF m1.state.retryCount > maxAttempts
             THEN ResetSession(notify(m1, Msg("failed")))
             ELSE LET m2 == notify(m1, [kind |-> "interrupted", attempt |-> m1.state.retryCount])
                      m3 == scheduleAfterDelay(m2, "retry",
                                retryDelayMinutes(m1.state.retryCount) * 60 * 1000)
                  IN  [m3 EXCEPT !.state.retryTimerId = m3.state.timerCounter]

\* timer.callback(): the three closures the script ever schedules
RunCallback(m, timer, env) ==
    CASE timer.callback = "retry" -> attemptChargeRestart(m, env)
      [] timer.callback = "climateOff" -> climateOffCallback(m)
      [] timer.callback = "wakeDone" -> wakeDoneCallback(m, env)

\* timer.callback() raises.  The closures guard OvmsCommand.Exec and
\* OvmsNotify.Raise themselves, so an exception can only leave them from a
\* console call: in the retry and wake-done closures that call comes before
\* any effect, in the climate-off closure it is the console.error of the
\* catch block, after the command was attempted and before the next timer is
\* scheduled.
ThrowingCallback(m, timer) ==
    IF timer.callback = "climateOff" THEN Exec(m, "climatecontrol off") ELSE m

\* variant: a timer counts as due one ticker period early
timerDue_Early(timer) == TickMs >= timer.executeTime

\* now >= timer.executeTime
timerDue(timer) == 0 >= timer.executeTime

\* variant: the two oldest entries are visited in reverse
timerAt_Swapped(m, i) ==
    IF i <= 2 /\ Len(m.state.pendingTimers) >= 2
    THEN m.state.pendingTimers[3 - i]
    ELSE m.state.pendingTimers[i]

\* var timer = state.pendingTimers[i]
timerAt(m, i) == m.state.pendingTimers[i]

\* try { timer.callback(); } catch (e) { console.error(...) }
invokeCallback(m, timer, env) ==
    LET threw == timer.id \in env.cbThrows
        m1 == IF threw THEN ThrowingCallback(m, timer) ELSE RunCallback(m, timer, env)
    IN  [m1 EXCEPT !.fired = Append(@, [id |-> timer.id, callback |-> timer.callback,
                                         executeTime |-> timer.executeTime,
                                         threw |-> threw])]

\* The for loop of processPendingTimers.  It reads state.pendingTimers.length
\* on every iteration, so timers pushed by a callback are visited in the same
\* pass (they are not due and go to remaining).
RECURSIVE TimerLoop(_, _, _, _)
TimerLoop(m, i, remaining, env) ==
    IF i > Len(m.state.pendingTimers)
    THEN [m EXCEPT !.state.pendingTimers = remaining]
    ELSE LET timer == timerAt(m, i)
         IN  IF timerDue(timer)
             THEN TimerLoop(invokeCallback(m, timer, env), i + 1, remaining, env)
             ELSE TimerLoop(m, i + 1, Append(remaining, timer), env)

processPendingTimers(m, env) == TimerLoop(m, 1, <<>>, env)

\* variant: an exception of a callback ends the tick handler
monitorSOC_AbortOnThrow(m, env) ==
    LET m1 == processPendingTimers(m, env)
    IN  IF \E i \in 1..Len(m1.fired) : m1.fired[i].threw THEN m1
        ELSE IF ~m1.state.monitoring THEN m1
        ELSE IF ~env.charging /\ m1.state.scheduledChargeActive
             THEN handleChargeInterruption(m1, env)
        ELSE IF ~env.charging
             THEN [m1 EXCEPT !.state.monitoring = FALSE]
        ELSE IF env.soc >= env.targetSOC
             THEN ResetSession(notify(Exec(m1, "charge stop"), Msg("charged")))
        ELSE m1

monitorSOC(m, env) ==
    LET m1 == processPendingTimers(m, env)
    IN  IF ~m1.state.monitoring THEN m1
        ELSE IF ~env.charging /\ m1.state.scheduledChargeActive
             THEN handleChargeInterruption(m1, env)
        ELSE IF ~env.charging
             THEN [m1 EXCEPT !.state.monitoring = FALSE]
        ELSE IF env.soc >= env.targetSOC
             THEN ResetSession(notify(Exec(m1, "charge stop"), Msg("charged")))
        ELSE m1

\* ------------------------------------------------------------------------
\* v1.x script: plug-in, schedule check, user commands, unplug
\* ------------------------------------------------------------------------

onPlugIn(m, cfg, env) ==
    IF env.soc >= cfg.targetSOC
    THEN notify(Exec(m, "charge stop"), Msg("skipped"))
    ELSE LET schedule == calculateSchedule(cfg, env.soc, cfg.targetSOC)
             m1 == Exec(m, "charge stop")
         IN  notify([m1 EXCEPT !.state.scheduledStartTime = schedule.scheduledStartMin,
                               !.state.scheduledEndTime = schedule.scheduledEndMin],
                    Msg("scheduled"))

AbsDiff(a, b) == IF a >= b THEN a - b ELSE b - a

\* variant: the manual-override test is left out
checkSchedule_NoManualGuard(m, cfg, env, nowMin) ==
    IF m.state.scheduledStartTime # NULL /\ ~env.charging /\ env.pilot
       /\ env.soc < cfg.targetSOC
    THEN LET d == AbsDiff(nowMin, m.state.scheduledStartTime)
             diff == IF d > 720 THEN 1440 - d ELSE d
         IN  IF diff <= 30
             THEN IF env.throws THEN Exec(m, "charge start")
                  ELSE [notify(Exec(m, "charge start"), Msg("started"))
                           EXCEPT !.state.scheduledChargeActive = TRUE,
                                  !.state.monitoring = TRUE,
                                  !.state.retryCount = 0]
             ELSE m
    ELSE m

checkSchedule(m, cfg, env, nowMin) ==
    IF m.state.manualOverride THEN m
    ELSE IF m.state.scheduledStartTime # NULL /\ ~env.charging /\ env.pilot
            /\ env.soc < cfg.targetSOC
    THEN LET d == AbsDiff(nowMin, m.state.scheduledStartTime)
             diff == IF d > 720 THEN 1440 - d ELSE d
         IN  IF diff <= 30
             THEN IF env.throws THEN Exec(m, "charge start")
                  ELSE [notify(Exec(m, "charge start"), Msg("started"))
                           EXCEPT !.state.scheduledChargeActive = TRUE,
                                  !.state.monitoring = TRUE,
                                  !.state.retryCount = 0]
             ELSE m
    ELSE m

\* variant: the scheduled flag is left as it was
start_KeepScheduled(m, cfg, env) ==
    IF ~env.pilot THEN m
    ELSE IF env.soc >= cfg.targetSOC THEN m
    ELSE LET m1 == Exec([m EXCEPT !.state.manualOverride = TRUE,
                                  !.state.monitoring = TRUE,
                                  !.state.retryCount = 0], "charge start")
         IN  IF env.throws THEN m1 ELSE notify(m1, Msg("manualStarted"))

start(m, cfg, env) ==
    IF ~env.pilot THEN m
    ELSE IF env.soc >= cfg.targetSOC THEN m
    ELSE LET m1 == Exec([m EXCEPT !.state.manualOverride = TRUE,
                                  !.state.scheduledChargeActive = FALSE,
                                  !.state.monitoring = TRUE,
                                  !.state.retryCount = 0], "charge start")
         IN  IF env.throws THEN m1 ELSE notify(m1, Msg("manualStarted"))

stop(m) ==
    Exec([m EXCEPT !.state.monitoring = FALSE,
                   !.state.scheduledChargeActive = FALSE,
                   !.state.manualOverride = FALSE,
                   !.state.retryCount = 0], "charge stop")

onUnplug(m) ==
    [m EXCEPT !.state.scheduledChargeActive = FALSE,
              !.state.manualOverride = FALSE,
              !.state.monitoring = FALSE,
              !.state.retryCount = 0,
              !.state.scheduledStartTime = NULL,
              !.state.scheduledEndTime = NULL,
              !.state.pendingTimers = <<>>]

\* ------------------------------------------------------------------------
\* v1.x script: configuration commands
\* ------------------------------------------------------------------------

\* exports.setTarget
setTarget(cfg, socv) ==
    IF socv < 20 \/ socv > 100 THEN cfg
    ELSE [cfg EXCEPT !.targetSOC = socv]

\* exports.setReadyBy of the v1.x script
setReadyByV1(cfg, hour, minute) ==
    IF hour < 0 \/ hour > 23 \/ minute < 0 \/ minute > 59 THEN cfg
    ELSE [cfg EXCEPT !.readyByHour = hour, !.readyByMinute = minute]

\* exports.setWindow (and its alias exports.setSchedule)
setWindow(cfg, startHour, startMin, endHour, endMin) ==
    [cfg EXCEPT !.cheapWindowStart = [hour |-> startHour, minute |-> startMin],
                !.cheapWindowEnd = [hour |-> endHour, minute |-> endMin]]

\* ------------------------------------------------------------------------
\* charging.js: constants, configuration, optimizer
\* ------------------------------------------------------------------------

\* getBatteryParams with no battery metrics and no configured override:
\* capacity 40 kWh at 100 % SOH
CJDefaultCapacityKWh == 40
CJDefaultSOH == 100
\* the charge-start handler keeps a vehicle-started charge when the scheduled
\* start is at most this many minutes away
CJKeepWithinMin == 30

ReadyBy(hour, minute) == [set |-> TRUE, hour |-> hour, minute |-> minute]

\* config.readyBy = null
NoReadyBy == [set |-> FALSE, hour |-> 0, minute |-> 0]

\* rates in tenths of a kW, prices in thousandths of the currency unit
CJInitConfig ==
    [cheapWindowStart |-> [hour |-> 23, minute |-> 30],
     cheapWindowEnd |-> [hour |-> 5, minute |-> 30],
     targetSOC |-> 80, skipIfAbove |-> 75, minSOCToCharge |-> 20,
     chargeRate10 |-> 18, readyBy |-> NoReadyBy,
     pricingCheap |-> 70, pricingStandard |-> 280,
     batteryCapacityKWh |-> 0, batterySOH |-> 0]

CJInitState ==
    [manualChargeActive |-> FALSE, scheduledChargeActive |-> FALSE,
     sessionActive |-> FALSE, subscribed |-> FALSE, autoStopTimers |-> 0]

\* calculateOptimalStart returned null, or the handler did not call it
NoOptimal == [isNull |-> TRUE]

\* getBatteryParams().usable as the fraction num/den of a kWh
getBatteryParams(cfg) ==
    LET capacity == IF cfg.batteryCapacityKWh = 0 \/ cfg.batteryCapacityKWh < 10
                       \/ cfg.batteryCapacityKWh > 250
                    THEN CJDefaultCapacityKWh ELSE cfg.batteryCapacityKWh
        soh == IF cfg.batterySOH = 0 \/ cfg.batterySOH < 50 \/ cfg.batterySOH > 100
               THEN CJDefaultSOH ELSE cfg.batterySOH
    IN  [num |-> capacity * soh, den |-> 100]

\* d = new Date(); d.setHours(h, m, 0, 0); if (d <= now) d.setDate(d.getDate() + 1)
\* on a line of minutes whose origin is today 00:00 (now has seconds >= 0,
\* so d <= now exactly when d's minute is not after now's minute)
NextOccurrence(minuteOfDay, now) ==
    IF minuteOfDay <= now THEN minuteOfDay + 1440 ELSE minuteOfDay

\* getHours() / getMinutes() of an instant on that line
HourOf(t) == (t \div 60) % 24
MinuteOf(t) == t % 60

\* hoursNeeded = (socNeeded / 100) * battery.usable / config.chargeRateKW,
\* as the fraction num/den of an hour
cjHoursNeeded(cfg, socv) ==
    LET battery == getBatteryParams(cfg)
    IN  [num |-> (cfg.targetSOC - socv) * battery.num * 10,
         den |-> 100 * battery.den * cfg.chargeRate10]

\* variant: the minutes are rounded down
cjMinutesNeeded_Floor(cfg, socv) ==
    (cjHoursNeeded(cfg, socv).num * 60) \div cjHoursNeeded(cfg, socv).den

\* minutesNeeded = Math.ceil(hoursNeeded * 60), on the exact quotient.  The
\* script works in doubles; the SOC, rate and target values of this model
\* are ones for which the double result is the same whole minute.
cjMinutesNeeded(cfg, socv) ==
    CeilDiv(cjHoursNeeded(cfg, socv).num * 60, cjHoursNeeded(cfg, socv).den)

\* calculateOptimalStart.  Durations the script holds in hours are kept in
\* minutes (overflowBefore, overflowAfter, bufferHours, windowDurationHours);
\* hoursNeeded is the fraction hoursNum / hoursDen of an hour;
\* overflowCost is in units of 1/600000 of the currency unit
\* (minutes x tenths of a kW x thousandths).
calculateOptimalStart(cfg, socv, now) ==
    IF ~cfg.readyBy.set THEN NoOptimal
    ELSE IF cfg.targetSOC - socv <= 0 THEN NoOptimal
    ELSE
    LET hoursNum == cjHoursNeeded(cfg, socv).num
        hoursDen == cjHoursNeeded(cfg, socv).den
        minutesNeeded == cjMinutesNeeded(cfg, socv)
        readyByTime == NextOccurrence(timeToMinutes(cfg.readyBy.hour, cfg.readyBy.minute), now)
        windowStart == NextOccurrence(
            timeToMinutes(cfg.cheapWindowStart.hour, cfg.cheapWindowStart.minute), now)
        windowEndToday == timeToMinutes(cfg.cheapWindowEnd.hour, cfg.cheapWindowEnd.minute)
        windowEnd == IF windowEndToday <= windowStart
                     THEN windowEndToday + 1440 ELSE windowEndToday
        windowDuration == windowEnd - windowStart
        result == [isNull |-> FALSE, hour |-> 0, minute |-> 0,
                   hoursNum |-> hoursNum, hoursDen |-> hoursDen,
                   windowDuration |-> windowDuration,
                   fitsInWindow |-> (hoursNum * 60 <= windowDuration * hoursDen),
                   overflowBefore |-> 0, overflowAfter |-> 0, overflowCost |-> 0,
                   startEarly |-> FALSE, bufferHours |-> 0, emergency |-> FALSE]
        chargeEndAtWindow == windowStart + minutesNeeded
    IN  IF chargeEndAtWindow > readyByTime
        THEN LET optimalStart == readyByTime - minutesNeeded
             IN  IF optimalStart <= now
                 THEN [result EXCEPT !.emergency = TRUE,
                                     !.hour = HourOf(now), !.minute = MinuteOf(now)]
                 ELSE LET before == IF optimalStart < windowStart
                                    THEN windowStart - optimalStart ELSE 0
                          chargeEnd == optimalStart + minutesNeeded
                          after == IF chargeEnd > windowEnd
                                   THEN chargeEnd - windowEnd ELSE 0
                      IN  [result EXCEPT !.startEarly = TRUE,
                                         !.overflowBefore = before,
                                         !.overflowAfter = after,
                                         !.overflowCost = (before + after) * cfg.chargeRate10
                                                              * cfg.pricingStandard,
                                         !.hour = HourOf(optimalStart),
                                         !.minute = MinuteOf(optimalStart)]
        ELSE LET after == IF chargeEndAtWindow > windowEnd
                          THEN chargeEndAtWindow - windowEnd ELSE 0
             IN  [result EXCEPT !.bufferHours = readyByTime - chargeEndAtWindow,
                                !.overflowAfter = after,
                                !.overflowCost = after * cfg.chargeRate10 * cfg.pricingStandard,
                                !.fitsInWindow = IF after > 0 THEN FALSE ELSE @,
                                !.hour = HourOf(windowStart),
                                !.minute = MinuteOf(windowStart)]

\* calculateChargeCost(startTime, endTime, chargeRateKW).  Times are minutes
\* since a local midnight; hours come out as minutes, costs as minutes x
\* 0.1 kW x 0.1 p.  new Date(t).setHours(h, m, 0, 0) is the minute h:m of
\* the day t lies in.
AtTimeOfDay(t, hm) == (t \div 1440) * 1440 + hm.hour * 60 + hm.minute

Min2(a, b) == IF a <= b THEN a ELSE b

\* variant: the time after the window is dropped from the breakdown
postWindowOf_Dropped(endTime, cheapEnd) == 0

\* if (endTime > cheapEnd) postWindowHours = endTime - cheapEnd
postWindowOf(endTime, cheapEnd) == IF endTime > cheapEnd THEN endTime - cheapEnd ELSE 0

calculateChargeCost(cfg, startTime, endTime, chargeRate10) ==
    LET cs0 == AtTimeOfDay(startTime, cfg.cheapWindowStart)
        cheapStart == IF cs0 < startTime THEN cs0 + 1440 ELSE cs0
        ce0 == AtTimeOfDay(cheapStart, cfg.cheapWindowEnd)
        cheapEnd == IF ce0 <= cheapStart THEN ce0 + 1440 ELSE ce0
        totalHours == endTime - startTime
        preWindowHours == IF startTime < cheapStart
                          THEN Min2(cheapStart - startTime, totalHours) ELSE 0
        chargeCheapStart == IF startTime > cheapStart THEN startTime ELSE cheapStart
        chargeCheapEnd == IF endTime < cheapEnd THEN endTime ELSE cheapEnd
        cheapHours == IF chargeCheapStart < chargeCheapEnd
                      THEN chargeCheapEnd - chargeCheapStart ELSE 0
        postWindowHours == postWindowOf(endTime, cheapEnd)
    IN  [preWindowHours |-> preWindowHours,
         cheapHours |-> cheapHours,
         postWindowHours |-> postWindowHours,
         totalCost |-> (preWindowHours + postWindowHours) * chargeRate10 * cfg.pricingStandard
                       + cheapHours * chargeRate10 * cfg.pricingCheap,
         totalHours |-> totalHours]

\* no cost breakdown has been computed
NoCost == [startTime |-> 0, endTime |-> 0, out |-> calculateChargeCost(CJInitConfig, 0, 0, 0)]

\* the optimizer result together with what it read
Computed(cfg, socv, now) ==
    [cfg |-> cfg, soc |-> socv, now |-> now, out |-> calculateOptimalStart(cfg, socv, now)]

NotComputed == [out |-> NoOptimal]

\* ------------------------------------------------------------------------
\* charging.js: handlers
\* ------------------------------------------------------------------------

CJMachine(c) == [cj |-> c, cmds |-> <<>>, notes |-> <<>>, optimal |-> NotComputed]

canCharge(cfg, env) ==
    /\ env.pilot
    /\ ~env.charging
    /\ ~(env.soc < cfg.minSOCToCharge \/ env.soc >= cfg.skipIfAbove)

\* variant: the stop minute counts as inside
inWindowTest_EndInclusive(currentMinutes, startMinutes, stopMinutes) ==
    IF startMinutes > stopMinutes
    THEN currentMinutes >= startMinutes \/ currentMinutes <= stopMinutes
    ELSE currentMinutes >= startMinutes /\ currentMinutes <= stopMinutes

\* the window test of checkSchedule and of exports.start
inWindowTest(currentMinutes, startMinutes, stopMinutes) ==
    IF startMinutes > stopMinutes
    THEN currentMinutes >= startMinutes \/ currentMinutes < stopMinutes
    ELSE currentMinutes >= startMinutes /\ currentMinutes < stopMinutes

\* variant: the energy is never reported below zero
kWhNeeded_Clamped(cfg, socv, targetSOC) ==
    LET battery == getBatteryParams(cfg)
        socNeeded == IF targetSOC - socv < 0 THEN 0 ELSE targetSOC - socv
    IN  [num |-> socNeeded * battery.num, den |-> 100 * battery.den]

\* kWhNeeded = (socNeeded / 100) * battery.usable of exports.start, as the
\* fraction num/den of a kWh
kWhNeeded(cfg, socv, targetSOC) ==
    LET battery == getBatteryParams(cfg)
        socNeeded == targetSOC - socv
    IN  [num |-> socNeeded * battery.num, den |-> 100 * battery.den]

\* the notification of a successful start, which reports the energy needed
StartMsg(kind, kWh) == [kind |-> kind, attempt |-> 0, kWhNeeded |-> kWh]

\* resetting the flag that exports.start set on entry
ClearModeFlag(m, isScheduled) ==
    IF isScheduled THEN [m EXCEPT !.cj.scheduledChargeActive = FALSE]
    ELSE [m EXCEPT !.cj.manualChargeActive = FALSE]

\* exports.start(isScheduled); env.result is what OvmsCommand.Exec does:
\* "ok", "error" (a result string naming an error) or "throw"
cjStart(m, cfg, env, isScheduled) ==
    LET m1 == IF isScheduled THEN [m EXCEPT !.cj.scheduledChargeActive = TRUE]
              ELSE [m EXCEPT !.cj.manualChargeActive = TRUE]
    IN  IF ~canCharge(cfg, env)
        THEN ClearModeFlag(notify(m1, Msg("cannotStart")), isScheduled)
        ELSE LET m2 == Exec([m1 EXCEPT !.cj.sessionActive = TRUE], "charge start")
             IN  CASE env.result = "throw" ->
                        ClearModeFlag(notify(m2, Msg("startFailed")), isScheduled)
                   [] env.result = "error" ->
                        [notify(m2, Msg("startFailed")) EXCEPT !.cj.manualChargeActive = FALSE]
                   [] OTHER ->
                        notify([m2 EXCEPT !.cj.subscribed = TRUE],
                               StartMsg(IF isScheduled THEN "scheduledStarted"
                                        ELSE "manualStarted",
                                        kWhNeeded(cfg, env.soc,
                                                  IF isScheduled THEN cfg.targetSOC ELSE 100)))

\* exports.stop()
cjStop(m, env) ==
    IF ~env.charging THEN notify(m, Msg("notCharging"))
    ELSE LET m1 == Exec(m, "charge stop")
         IN  IF env.result # "ok" THEN notify(m1, Msg("stopFailed"))
             ELSE notify([m1 EXCEPT !.cj.subscribed = FALSE,
                                    !.cj.sessionActive = FALSE], Msg("stopped"))

\* monitorSOC of charging.js, as far as it acts (the power, stall and ETA
\* bookkeeping only prints diagnostics)
cjMonitorSOC(m, cfg, env) ==
    IF ~env.charging THEN m
    ELSE LET targetSOC == IF m.cj.manualChargeActive THEN 100 ELSE cfg.targetSOC
         IN  IF env.soc >= targetSOC THEN cjStop(m, env) ELSE m

\* exports.checkSchedule()
cjCheckSchedule(m, cfg, env) ==
    IF m.cj.manualChargeActive THEN m
    ELSE
    LET currentMinutes == env.now
        cheapStart == timeToMinutes(cfg.cheapWindowStart.hour, cfg.cheapWindowStart.minute)
        cheapEnd == timeToMinutes(cfg.cheapWindowEnd.hour, cfg.cheapWindowEnd.minute)
        computed == Computed(cfg, env.soc, env.now)
        optimal == computed.out
        m0 == IF cfg.readyBy.set THEN [m EXCEPT !.optimal = computed] ELSE m
    IN  IF cfg.readyBy.set /\ ~optimal.isNull /\ optimal.emergency
           /\ ~env.charging /\ env.pilot /\ env.soc < cfg.skipIfAbove
        THEN cjStart(m0, cfg, env, TRUE)
        ELSE
        LET startMinutes == IF cfg.readyBy.set /\ ~optimal.isNull
                            THEN optimal.hour * 60 + optimal.minute
                            ELSE cheapStart
            stopMinutes == IF cfg.readyBy.set
                           THEN timeToMinutes(cfg.readyBy.hour, cfg.readyBy.minute)
                           ELSE cheapEnd
            inWindow == inWindowTest(currentMinutes, startMinutes, stopMinutes)
        IN  IF inWindow /\ ~env.charging /\ env.pilot
            THEN IF env.soc < cfg.skipIfAbove THEN cjStart(m0, cfg, env, TRUE) ELSE m0
            ELSE IF ~inWindow /\ env.charging
            THEN LET shouldStop == IF cfg.readyBy.set THEN currentMinutes > stopMinutes
                                   ELSE TRUE
                 IN  IF shouldStop THEN cjStop(m0, env) ELSE m0
            ELSE m0

\* handler of vehicle.charge.start
cjOnChargeStart(m, cfg, env) ==
    LET computed == Computed(cfg, env.soc, env.now)
        optimal == computed.out
        cheapStart == timeToMinutes(cfg.cheapWindowStart.hour, cfg.cheapWindowStart.minute)
        startMinutes == IF cfg.readyBy.set /\ ~optimal.isNull
                        THEN optimal.hour * 60 + optimal.minute
                        ELSE cheapStart
        minutesUntilStart == IF startMinutes > env.now THEN startMinutes - env.now
                             ELSE (1440 - env.now) + startMinutes
        autoStarted == ~m.cj.manualChargeActive /\ ~m.cj.scheduledChargeActive
        m1 == IF ~m.cj.sessionActive
              THEN LET m2 == [m EXCEPT !.cj.sessionActive = TRUE]
                       m3 == IF autoStarted /\ cfg.readyBy.set
                             THEN [m2 EXCEPT !.optimal = computed] ELSE m2
                   IN  IF autoStarted /\ minutesUntilStart > CJKeepWithinMin
                       THEN [m3 EXCEPT !.cj.autoStopTimers = @ + 1]
                       ELSE m3
              ELSE m
    IN  [m1 EXCEPT !.cj.subscribed = TRUE]

\* the function given to setTimeout by the charge-start handler
cjAutoStopTimeout(m, env) ==
    LET m1 == [m EXCEPT !.cj.autoStopTimers = @ - 1]
    IN  IF env.charging /\ ~m1.cj.manualChargeActive /\ ~m1.cj.scheduledChargeActive
        THEN notify(cjStop(m1, env), Msg("autoStop"))
        ELSE m1

\* handler of vehicle.charge.stop
cjOnChargeStop(m) ==
    LET m1 == [m EXCEPT !.cj.manualChargeActive = FALSE,
                        !.cj.scheduledChargeActive = FALSE,
                        !.cj.subscribed = FALSE]
    IN  IF m1.cj.sessionActive
        THEN notify([m1 EXCEPT !.cj.sessionActive = FALSE], Msg("sessionSummary"))
        ELSE m1

\* exports.setLimits
setLimits(cfg, target, skipIfAbove) ==
    IF target < 20 \/ target > 100 \/ skipIfAbove < 10 \/ skipIfAbove > 100
    THEN [cfg |-> cfg, notes |-> <<Msg("invalid")>>, optimal |-> NotComputed]
    ELSE [cfg |-> [cfg EXCEPT !.targetSOC = target, !.skipIfAbove = skipIfAbove],
          notes |-> <<Msg("config")>>, optimal |-> NotComputed]

\* exports.setReadyBy
setReadyBy(cfg, hour, minute, socv, now) ==
    IF hour < 0 \/ hour > 23 \/ minute < 0 \/ minute > 59
    THEN [cfg |-> cfg, notes |-> <<Msg("invalid")>>, optimal |-> NotComputed]
    ELSE LET cfg1 == [cfg EXCEPT !.readyBy = ReadyBy(hour, minute)]
             computed == Computed(cfg1, socv, now)
         IN  [cfg |-> cfg1,
              notes |-> <<Msg(IF computed.out.isNull THEN "cannotCalculate" ELSE "config")>>,
              optimal |-> computed]

\* exports.clearReadyBy
clearReadyBy(cfg) ==
    [cfg |-> [cfg EXCEPT !.readyBy = NoReadyBy], notes |-> <<Msg("config")>>,
     optimal |-> NotComputed]

\* exports.setSchedule
setSchedule(cfg, startHour, startMin, stopHour, stopMin) ==
    IF startHour < 0 \/ startHour > 23 \/ stopHour < 0 \/ stopHour > 23
       \/ startMin < 0 \/ startMin > 59 \/ stopMin < 0 \/ stopMin > 59
    THEN [cfg |-> cfg, notes |-> <<Msg("invalid")>>, optimal |-> NotComputed]
    ELSE [cfg |-> [cfg EXCEPT !.cheapWindowStart = [hour |-> startHour, minute |-> startMin],
                              !.cheapWindowEnd = [hour |-> stopHour, minute |-> stopMin]],
          notes |-> <<Msg("config")>>, optimal |-> NotComputed]

\* ------------------------------------------------------------------------
\* v1.x script: the state machine
\* ------------------------------------------------------------------------

InitConfig ==
    [targetSOC |-> 80, readyByHour |-> 7, readyByMinute |-> 30,
     cheapWindowStart |-> [hour |-> 23, minute |-> 30],
     cheapWindowEnd |-> [hour |-> 5, minute |-> 30],
     chargerRate10 |-> 18, batteryOverride |-> 0, sohOverride |-> 0]

InitState ==
    [monitoring |-> FALSE, manualOverride |-> FALSE, scheduledChargeActive |-> FALSE,
     retryCount |-> 0, retryTimerId |-> NULL,
     scheduledStartTime |-> NULL, scheduledEndTime |-> NULL,
     pendingTimers |-> <<>>, timerCounter |-> 0]

Init ==
    /\ config = InitConfig
    /\ state = InitState
    /\ pilot \in BOOLEAN
    /\ charging \in BOOLEAN
    /\ charging => pilot
    /\ soc \in SOCValues
    /\ cmds = <<>>
    /\ notes = <<>>
    /\ op = "init"
    /\ failedLatch = FALSE
    /\ timerLog = <<>>
    /\ cjConfig = CJInitConfig
    /\ cj = CJInitState
    /\ cjNow = 0
    /\ cjOptimal = NotComputed
    /\ cjCost = NoCost

\* what a handler reads from the vehicle and the platform while it runs;
\* throws: OvmsCommand.Exec raises in this handler; cbThrows: the ids of the
\* timers whose callback raises
Env(throws) ==
    [pilot |-> pilot, charging |-> charging, soc |-> soc,
     targetSOC |-> config.targetSOC, throws |-> throws, cbThrows |-> {}]

HasNote(ns, kind) == \E i \in 1..Len(ns) : ns[i].kind = kind
HasCmd(cs, c) == \E i \in 1..Len(cs) : cs[i] = c

Ran(m, name) ==
    /\ state' = m.state
    /\ cmds' = m.cmds
    /\ notes' = m.notes
    /\ op' = name

\* ticker.60
Tick ==
    \E throws \in BOOLEAN :
        LET m == monitorSOC(Machine(AdvanceClock(state)), Env(throws))
        IN  /\ Ran(m, "tick")
            /\ failedLatch' = (failedLatch \/ HasNote(m.notes, "failed"))
            /\ UNCHANGED <<cjVars, timerLog, config, pilot, charging, soc>>

\* clock.HHMM event: script eval charging.checkSchedule()
CheckSchedule ==
    \E nowMin \in CheckMinutes, throws \in BOOLEAN :
        LET m == checkSchedule(Machine(state), config, Env(throws), nowMin)
        IN  /\ HasCmd(m.cmds, "charge start") => state.timerCounter < MaxTimerCounter
            /\ Ran(m, "checkSchedule")
            /\ UNCHANGED <<cjVars, timerLog, config, pilot, charging, soc, failedLatch>>

Start ==
    \E throws \in BOOLEAN :
        /\ Ran(start(Machine(state), config, Env(throws)), "start")
        /\ UNCHANGED <<cjVars, timerLog, config, pilot, charging, soc, failedLatch>>

Stop ==
    /\ Ran(stop(Machine(state)), "stop")
    /\ UNCHANGED <<cjVars, timerLog, config, pilot, charging, soc, failedLatch>>

\* the cable is plugged in: vehicle.charge.prepare runs onPlugIn
PlugIn ==
    /\ ~pilot
    /\ pilot' = TRUE
    /\ Ran(onPlugIn(Machine(state), config, [Env(FALSE) EXCEPT !.pilot = TRUE]), "onPlugIn")
    /\ failedLatch' = FALSE
    /\ UNCHANGED <<cjVars, timerLog, config, charging, soc>>

\* the vehicle begins to charge (on its own or after a command):
\* vehicle.charge.start runs onPlugIn as well
ChargeStart ==
    /\ pilot /\ ~charging
    /\ charging' = TRUE
    /\ Ran(onPlugIn(Machine(state), config, [Env(FALSE) EXCEPT !.charging = TRUE]), "onPlugIn")
    /\ failedLatch' = FALSE
    /\ UNCHANGED <<cjVars, timerLog, config, pilot, soc>>

\* the vehicle stops charging (command, power cut, pilot loss, full battery)
ChargeStop ==
    /\ charging
    /\ charging' = FALSE
    /\ cmds' = <<>> /\ notes' = <<>> /\ op' = "chargeStop"
    /\ UNCHANGED <<cjVars, timerLog, config, state, pilot, soc, failedLatch>>

\* vehicle.charge.pilot.off
Unplug ==
    /\ pilot
    /\ pilot' = FALSE
    /\ charging' = FALSE
    /\ Ran(onUnplug(Machine(state)), "onUnplug")
    /\ UNCHANGED <<cjVars, timerLog, config, soc, failedLatch>>

SocChange ==
    /\ \E s \in SOCValues \ {soc} : soc' = s
    /\ cmds' = <<>> /\ notes' = <<>> /\ op' = "socChange"
    /\ UNCHANGED <<cjVars, timerLog, config, state, pilot, charging, failedLatch>>

Next ==
    \/ Tick
    \/ CheckSchedule
    \/ Start
    \/ Stop
    \/ PlugIn
    \/ ChargeStart
    \/ ChargeStop
    \/ Unplug
    \/ SocChange

Spec == Init /\ [][Next]_vars

\* ticker.60 keeps firing
LiveSpec == Spec /\ WF_vars(Tick)

\* ------------------------------------------------------------------------
\* v1.x script: the timer emulation on its own
\* ------------------------------------------------------------------------

\* the lists state.pendingTimers can hold: ids are handed out by
\* ++state.timerCounter and entries are pushed at the end
TimerLists ==
    UNION {[1..n -> TimerEntries] : n \in 0..MaxPending}

TimerInit ==
    /\ config = InitConfig
    /\ \E l \in TimerLists, mon \in BOOLEAN, sca \in BOOLEAN :
          /\ sca => mon
          /\ state = [InitState EXCEPT
                        !.monitoring = mon,
                        !.scheduledChargeActive = sca,
                        !.timerCounter = Len(l),
                        !.pendingTimers =
                            [i \in 1..Len(l) |-> [id |-> i, callback |-> l[i][1],
                                                  executeTime |-> l[i][2]]]]
    /\ pilot \in BOOLEAN
    /\ charging \in BOOLEAN
    /\ charging => pilot
    /\ soc \in SOCValues
    /\ cmds = <<>>
    /\ notes = <<>>
    /\ op = "init"
    /\ failedLatch = FALSE
    /\ timerLog = <<>>
    /\ cjConfig = CJInitConfig
    /\ cj = CJInitState
    /\ cjNow = 0
    /\ cjOptimal = NotComputed
    /\ cjCost = NoCost

\* ticker.60: monitorSOC, with any of the pending callbacks raising
TimerTick ==
    /\ Len(timerLog) < MaxTicks
    /\ \E throws \in BOOLEAN,
          cbThrows \in SUBSET {state.pendingTimers[i].id : i \in 1..Len(state.pendingTimers)} :
          LET env == [Env(throws) EXCEPT !.cbThrows = cbThrows]
              m == monitorSOC(Machine(AdvanceClock(state)), env)
          IN  /\ Ran(m, "timerTick")
              /\ timerLog' = Append(timerLog, m.fired)
              /\ failedLatch' = (failedLatch \/ HasNote(m.notes, "failed"))
              /\ UNCHANGED <<cjVars, config, pilot, charging, soc>>

TimerNext == TimerTick

SpecTimer == TimerInit /\ [][TimerNext]_vars

\* ------------------------------------------------------------------------
\* charging.js: the state machine
\* ------------------------------------------------------------------------

\* what a charging.js handler reads while it runs; result is the outcome
\* of OvmsCommand.Exec in this handler
CJEnv(result) ==
    [pilot |-> pilot, charging |-> charging, soc |-> soc, now |-> cjNow,
     result |-> result]

ExecResults == {"ok", "error", "throw"}

CJInit ==
    /\ config = InitConfig
    /\ state = InitState
    /\ failedLatch = FALSE
    /\ timerLog = <<>>
    /\ pilot = FALSE
    /\ charging = FALSE
    /\ soc \in CJSOCValues
    /\ cmds = <<>>
    /\ notes = <<>>
    /\ op = "init"
    /\ cjConfig = CJInitConfig
    /\ cj = CJInitState
    /\ cjNow \in CJMinutes
    /\ cjOptimal = NotComputed
    /\ cjCost = NoCost

CJRan(m, name) ==
    /\ cj' = m.cj
    /\ cmds' = m.cmds
    /\ notes' = m.notes
    /\ cjOptimal' = m.optimal
    /\ op' = name

\* clock.HHMM event: script eval charging.checkSchedule()
CJCheckSchedule ==
    \E result \in ExecResults :
        /\ CJRan(cjCheckSchedule(CJMachine(cj), cjConfig, CJEnv(result)), "cjCheckSchedule")
        /\ UNCHANGED <<v1Vars, cjCost, cjConfig, cjNow, pilot, charging, soc>>

\* the user runs charging.start()
CJStart ==
    \E result \in ExecResults :
        /\ CJRan(cjStart(CJMachine(cj), cjConfig, CJEnv(result), FALSE), "cjStart")
        /\ UNCHANGED <<v1Vars, cjCost, cjConfig, cjNow, pilot, charging, soc>>

\* the user runs charging.stop(), or usr.charge.stop is raised
CJStop ==
    \E result \in ExecResults :
        /\ CJRan(cjStop(CJMachine(cj), CJEnv(result)), "cjStop")
        /\ UNCHANGED <<v1Vars, cjCost, cjConfig, cjNow, pilot, charging, soc>>

\* ticker.60 while monitorSOC is subscribed
CJTick ==
    /\ cj.subscribed
    /\ \E result \in ExecResults :
        CJRan(cjMonitorSOC(CJMachine(cj), cjConfig, CJEnv(result)), "cjMonitorSOC")
    /\ UNCHANGED <<v1Vars, cjCost, cjConfig, cjNow, pilot, charging, soc>>

\* the vehicle begins to charge (on its own or after a command)
CJVehicleChargeStart ==
    /\ pilot /\ ~charging
    /\ charging' = TRUE
    /\ LET m == cjOnChargeStart(CJMachine(cj), cjConfig,
                                [CJEnv("ok") EXCEPT !.charging = TRUE])
       IN  /\ m.cj.autoStopTimers <= MaxAutoStopTimers
           /\ CJRan(m, "cjOnChargeStart")
    /\ UNCHANGED <<v1Vars, cjCost, cjConfig, cjNow, pilot, soc>>

\* the vehicle ends the charge (after a command, or on its own)
CJVehicleChargeStop ==
    /\ charging
    /\ charging' = FALSE
    /\ CJRan(cjOnChargeStop(CJMachine(cj)), "cjOnChargeStop")
    /\ UNCHANGED <<v1Vars, cjCost, cjConfig, cjNow, pilot, soc>>

\* a timeout set by the charge-start handler expires
CJAutoStopTimeout ==
    /\ cj.autoStopTimers > 0
    /\ \E result \in ExecResults :
        CJRan(cjAutoStopTimeout(CJMachine(cj), CJEnv(result)), "cjAutoStopTimeout")
    /\ UNCHANGED <<v1Vars, cjCost, cjConfig, cjNow, pilot, charging, soc>>

CJPlug ==
    /\ ~pilot
    /\ pilot' = TRUE
    /\ cmds' = <<>> /\ notes' = <<>> /\ op' = "cjPlug" /\ cjOptimal' = NotComputed
    /\ UNCHANGED <<v1Vars, cjCost, cjConfig, cj, cjNow, charging, soc>>

CJUnplug ==
    /\ pilot /\ ~charging
    /\ pilot' = FALSE
    /\ cmds' = <<>> /\ notes' = <<>> /\ op' = "cjUnplug" /\ cjOptimal' = NotComputed
    /\ UNCHANGED <<v1Vars, cjCost, cjConfig, cj, cjNow, charging, soc>>

CJSocChange ==
    /\ \E s \in CJSOCValues \ {soc} : soc' = s
    /\ cmds' = <<>> /\ notes' = <<>> /\ op' = "cjSocChange" /\ cjOptimal' = NotComputed
    /\ UNCHANGED <<v1Vars, cjCost, cjConfig, cj, cjNow, pilot, charging>>

\* the wall clock reaches another minute of the day
CJClock ==
    /\ \E t \in CJMinutes \ {cjNow} : cjNow' = t
    /\ cmds' = <<>> /\ notes' = <<>> /\ op' = "cjClock" /\ cjOptimal' = NotComputed
    /\ UNCHANGED <<v1Vars, cjCost, cjConfig, cj, pilot, charging, soc>>

CJSetterRan(r, name) ==
    /\ cjConfig' = r.cfg
    /\ notes' = r.notes
    /\ cjOptimal' = r.optimal
    /\ cmds' = <<>>
    /\ op' = name
    /\ UNCHANGED <<v1Vars, cjCost, cj, cjNow, pilot, charging, soc>>

CJSetLimits ==
    \E l \in CJLimits : CJSetterRan(setLimits(cjConfig, l[1], l[2]), "setLimits")

CJSetReadyBy ==
    \E t \in CJReadyBys :
        CJSetterRan(setReadyBy(cjConfig, t[1], t[2], soc, cjNow), "setReadyBy")

CJClearReadyBy ==
    CJSetterRan(clearReadyBy(cjConfig), "clearReadyBy")

CJNext ==
    \/ CJCheckSchedule
    \/ CJStart
    \/ CJStop
    \/ CJTick
    \/ CJVehicleChargeStart
    \/ CJVehicleChargeStop
    \/ CJAutoStopTimeout
    \/ CJPlug
    \/ CJUnplug
    \/ CJSocChange
    \/ CJClock
    \/ CJSetLimits
    \/ CJSetReadyBy
    \/ CJClearReadyBy

SpecCJ == CJInit /\ [][CJNext]_vars

\* ------------------------------------------------------------------------
\* The two schedule calculations as functions of their inputs
\* ------------------------------------------------------------------------

\* the v1.x configuration that holds the same settings as a charging.js one
V1ConfigOf(cfg) ==
    [InitConfig EXCEPT !.targetSOC = cfg.targetSOC,
                       !.readyByHour = cfg.readyBy.hour,
                       !.readyByMinute = cfg.readyBy.minute,
                       !.cheapWindowStart = cfg.cheapWindowStart,
                       !.cheapWindowEnd = cfg.cheapWindowEnd,
                       !.chargerRate10 = cfg.chargeRate10]

OptInit ==
    /\ \E w \in OptWindows, t \in OptReadyBys, r \in OptRates10, tg \in OptTargets :
          cjConfig = [CJInitConfig EXCEPT !.cheapWindowStart = [hour |-> w[1], minute |-> w[2]],
                                          !.cheapWindowEnd = [hour |-> w[3], minute |-> w[4]],
                                          !.readyBy = ReadyBy(t[1], t[2]),
                                          !.chargeRate10 = r,
                                          !.targetSOC = tg]
    /\ config = V1ConfigOf(cjConfig)
    /\ state = InitState
    /\ failedLatch = FALSE
    /\ timerLog = <<>>
    /\ pilot = FALSE
    /\ charging = FALSE
    /\ soc \in OptSOCValues
    /\ cmds = <<>>
    /\ notes = <<>>
    /\ op = "init"
    /\ cj = CJInitState
    /\ cjNow \in OptMinutes
    /\ cjOptimal = NotComputed
    /\ cjCost = NoCost

\* charging.js computes its schedule
OptCalculate ==
    /\ cjOptimal' = Computed(cjConfig, soc, cjNow)
    /\ op' = "calculateOptimalStart"
    /\ UNCHANGED <<v1Vars, cjCost, cjConfig, cj, cjNow, pilot, charging, soc, cmds, notes>>

\* the v1.x script computes and stores its schedule when the car is plugged in
OptPlugIn ==
    /\ ~pilot
    /\ pilot' = TRUE
    /\ Ran(onPlugIn(Machine(state), config, [Env(FALSE) EXCEPT !.pilot = TRUE]), "onPlugIn")
    /\ UNCHANGED <<cjVars, timerLog, config, charging, soc, failedLatch>>

OptNext ==
    \/ OptCalculate
    \/ OptPlugIn

SpecOpt == OptInit /\ [][OptNext]_vars

\* ------------------------------------------------------------------------
\* The configuration commands of both scripts
\* ------------------------------------------------------------------------

SetInit ==
    /\ config = InitConfig
    /\ state = InitState
    /\ failedLatch = FALSE
    /\ timerLog = <<>>
    /\ pilot = FALSE
    /\ charging = FALSE
    /\ soc = 50
    /\ cmds = <<>>
    /\ notes = <<>>
    /\ op = "init"
    /\ cjConfig = CJInitConfig
    /\ cj = CJInitState
    /\ cjNow = 0
    /\ cjOptimal = NotComputed
    /\ cjCost = NoCost

\* a v1.x command that only writes config (and logs to the console)
V1SetterRan(cfg, name) ==
    /\ config' = cfg
    /\ cmds' = <<>> /\ notes' = <<>> /\ op' = name
    /\ UNCHANGED <<cjVars, timerLog, state, failedLatch, pilot, charging, soc>>

SetTarget ==
    \E t \in SetTargets : V1SetterRan(setTarget(config, t), "setTarget")

SetReadyByV1 ==
    \E t \in SetTimes : V1SetterRan(setReadyByV1(config, t[1], t[2]), "setReadyByV1")

SetWindow ==
    \E w \in SetWindows :
        V1SetterRan(setWindow(config, w[1], w[2], w[3], w[4]), "setWindow")

SetLimitsCJ ==
    \E t \in SetTargets : CJSetterRan(setLimits(cjConfig, t, cjConfig.skipIfAbove), "setLimits")

SetReadyByCJ ==
    \E t \in SetTimes :
        CJSetterRan(setReadyBy(cjConfig, t[1], t[2], soc, cjNow), "setReadyBy")

SetScheduleCJ ==
    \E w \in SetWindows :
        CJSetterRan(setSchedule(cjConfig, w[1], w[2], w[3], w[4]), "setSchedule")

SetNext ==
    \/ SetTarget
    \/ SetReadyByV1
    \/ SetWindow
    \/ SetLimitsCJ
    \/ SetReadyByCJ
    \/ SetScheduleCJ

SpecSet == SetInit /\ [][SetNext]_vars

\* ------------------------------------------------------------------------
\* charging.js in fixed-schedule mode over a range of windows and times
\* ------------------------------------------------------------------------

WinInit ==
    /\ config = InitConfig
    /\ state = InitState
    /\ failedLatch = FALSE
    /\ timerLog = <<>>
    /\ pilot = TRUE
    /\ charging = FALSE
    /\ soc = 50
    /\ cmds = <<>>
    /\ notes = <<>>
    /\ op = "init"
    /\ \E w \in WinPairs :
          cjConfig = setSchedule(CJInitConfig, w[1], w[2], w[3], w[4]).cfg
    /\ cj = CJInitState
    /\ cjNow \in WinMinutes
    /\ cjOptimal = NotComputed
    /\ cjCost = NoCost

WinClock ==
    /\ \E t \in WinMinutes \ {cjNow} : cjNow' = t
    /\ cmds' = <<>> /\ notes' = <<>> /\ op' = "cjClock" /\ cjOptimal' = NotComputed
    /\ UNCHANGED <<v1Vars, cjCost, cjConfig, cj, pilot, charging, soc>>

WinSetSchedule ==
    \E w \in WinPairs :
        CJSetterRan(setSchedule(cjConfig, w[1], w[2], w[3], w[4]), "setSchedule")

WinNext ==
    \/ CJCheckSchedule
    \/ WinClock
    \/ WinSetSchedule

SpecWin == WinInit /\ [][WinNext]_vars

\* ------------------------------------------------------------------------
\* v1.x script: the schedule check over the times of day
\* ------------------------------------------------------------------------

SchedInit ==
    /\ config = InitConfig
    /\ state = InitState
    /\ failedLatch = FALSE
    /\ timerLog = <<>>
    /\ pilot = FALSE
    /\ charging = FALSE
    /\ soc \in SchedSOCValues
    /\ cmds = <<>>
    /\ notes = <<>>
    /\ op = "init"
    /\ cjConfig = CJInitConfig
    /\ cj = CJInitState
    /\ cjNow \in SchedMinutes
    /\ cjOptimal = NotComputed
    /\ cjCost = NoCost

\* the cable is plugged in: onPlugIn stores the schedule
SchedPlugIn ==
    /\ ~pilot
    /\ pilot' = TRUE
    /\ Ran(onPlugIn(Machine(state), config, [Env(FALSE) EXCEPT !.pilot = TRUE]), "onPlugIn")
    /\ UNCHANGED <<cjVars, timerLog, config, charging, soc, failedLatch>>

\* the wall clock moves
SchedClock ==
    /\ \E t \in SchedMinutes \ {cjNow} : cjNow' = t
    /\ cmds' = <<>> /\ notes' = <<>> /\ op' = "clock"
    /\ UNCHANGED <<v1Vars, cjConfig, cj, cjOptimal, cjCost, pilot, charging, soc>>

\* clock.HHMM event: checkSchedule reads the wall clock
SchedCheckSchedule ==
    \E throws \in BOOLEAN :
        /\ Ran(checkSchedule(Machine(state), config, Env(throws), cjNow), "checkSchedule")
        /\ UNCHANGED <<cjConfig, cj, cjNow, cjOptimal, cjCost, timerLog, config, pilot,
                       charging, soc, failedLatch>>

SchedNext ==
    \/ SchedPlugIn
    \/ SchedClock
    \/ SchedCheckSchedule

SpecSched == SchedInit /\ [][SchedNext]_vars

\* ------------------------------------------------------------------------
\* charging.js: the cost breakdown as a function of its inputs
\* ------------------------------------------------------------------------

CostInit ==
    /\ config = InitConfig
    /\ state = InitState
    /\ failedLatch = FALSE
    /\ timerLog = <<>>
    /\ pilot = FALSE
    /\ charging = FALSE
    /\ soc = 50
    /\ cmds = <<>>
    /\ notes = <<>>
    /\ op = "init"
    /\ \E w \in CostWindows :
          cjConfig = [CJInitConfig EXCEPT !.cheapWindowStart = [hour |-> w[1], minute |-> w[2]],
                                          !.cheapWindowEnd = [hour |-> w[3], minute |-> w[4]]]
    /\ cj = CJInitState
    /\ cjNow = 0
    /\ cjOptimal = NotComputed
    /\ \E t \in CostStarts, d \in CostDurations :
          cjCost = [NoCost EXCEPT !.startTime = t, !.endTime = t + d]

\* the breakdown of the session from cjCost.startTime to cjCost.endTime
CostCalculate ==
    /\ op = "init"
    /\ cjCost' = [cjCost EXCEPT !.out = calculateChargeCost(cjConfig, cjCost.startTime,
                                                            cjCost.endTime,
                                                            cjConfig.chargeRate10)]
    /\ op' = "calculateChargeCost"
    /\ UNCHANGED <<v1Vars, cjConfig, cj, cjNow, cjOptimal, pilot, charging, soc, cmds, notes>>

CostNext == CostCalculate

SpecCost == CostInit /\ [][CostNext]_vars

\* ------------------------------------------------------------------------
\* Properties of the v1.x recovery state machine
\* ------------------------------------------------------------------------

\* C1: in every reachable state the retry counter is between 0 and
\* maxAttempts (3).
C1_RetryCountBounded ==
    state.retryCount >= 0 /\ state.retryCount <= maxAttempts

\* a third interruption in a row has been counted
C1_Witness ==
    /\ op = "tick"
    /\ state.retryCount = maxAttempts
    /\ HasNote(notes, "interrupted")

\* C2: once a tick has detected the interruption of a scheduled charge,
\* then (ticks keep arriving) eventually a tick reissues 'charge start' from
\* the wake sequence, or the terminal failure is notified with the session
\* idle - unless the vehicle was unplugged, the user called start() or
\* stop(), or SOC was seen at or above the target in the meantime.
C2_Detected == op = "tick" /\ HasNote(notes, "interrupted")

C2_Restarted == op = "tick" /\ HasCmd(cmds, "charge start")

C2_FailedIdle ==
    /\ op = "tick" /\ HasNote(notes, "failed")
    /\ ~state.scheduledChargeActive /\ ~state.monitoring /\ state.retryCount = 0

C2_Escape ==
    \/ ~pilot
    \/ op \in {"onUnplug", "start", "stop"}
    \/ soc >= config.targetSOC

C2_RecoveryLive == C2_Detected ~> (C2_Restarted \/ C2_FailedIdle \/ C2_Escape)

\* a wake sequence has run to its end and restarted the charge
C2_Witness ==
    /\ op = "tick" /\ HasCmd(cmds, "charge start") /\ HasNote(notes, "restarted")
    /\ pilot /\ soc < config.targetSOC /\ ~state.manualOverride

\* C3 (as claimed): while manualOverride is true no tick executes the wake
\* command 'climatecontrol on' nor the recovery 'charge start'.
C3_ManualNeverRetries ==
    (op = "tick" /\ state.manualOverride) =>
        /\ ~HasCmd(cmds, "climatecontrol on")
        /\ ~HasCmd(cmds, "charge start")

\* C4 (as claimed): a tick that observes charging stopped under manual
\* override schedules no timer and leaves retryCount at 0.
C4_ManualInterruptionSchedulesNothing ==
    [][(state.manualOverride /\ ~charging /\ op' = "tick") =>
          /\ state'.timerCounter = state.timerCounter
          /\ state'.retryCount = 0]_vars

\* C5 (as claimed): after the terminal failure notification no tick takes a
\* retry action (wake command, 'charge start', new timer, interruption or
\* failure notification) until the next plug-in event.
C5_FailedIsTerminal ==
    [][(failedLatch /\ op' = "tick") =>
          /\ ~HasCmd(cmds', "climatecontrol on")
          /\ ~HasCmd(cmds', "charge start")
          /\ state'.timerCounter = state.timerCounter
          /\ ~HasNote(notes', "interrupted")
          /\ ~HasNote(notes', "failed")]_vars

\* C6 (as claimed): after onUnplug and after stop() no deferred callback is
\* pending.
C6_UnplugAndStopClearTimers ==
    op \in {"onUnplug", "stop"} => state.pendingTimers = <<>>

\* ------------------------------------------------------------------------
\* Properties of the schedule calculations and of the charging.js scheduler
\* ------------------------------------------------------------------------

ReadyByMin(cfg) == timeToMinutes(cfg.readyBy.hour, cfg.readyBy.minute)
CheapStartMin(cfg) == timeToMinutes(cfg.cheapWindowStart.hour, cfg.cheapWindowStart.minute)

\* charging.js half of C7: a schedule returned without the emergency flag
\* ends at or before the next occurrence of the deadline, and is exactly
\* deadline - minutesNeeded when the cheap-window start would end too late.
C7_OptimalStartMeetsDeadline ==
    (~cjOptimal.out.isNull /\ ~cjOptimal.out.emergency) =>
        LET cfg == cjOptimal.cfg
            now == cjOptimal.now
            r == cjOptimal.out
            mins == cjMinutesNeeded(cfg, cjOptimal.soc)
            deadline == NextOccurrence(ReadyByMin(cfg), now)
            startAt == NextOccurrence(r.hour * 60 + r.minute, now)
        IN  /\ startAt + mins <= deadline
            /\ (NextOccurrence(CheapStartMin(cfg), now) + mins > deadline)
                   => (r.hour * 60 + r.minute = (deadline - mins) % 1440)

\* v1.x half of C7: the schedule stored at plug-in, when the deadline can
\* still be met (deadline - minutesNeeded is after now), ends at or before
\* the next occurrence of the deadline.
C7_ScheduleMeetsDeadline ==
    (op = "onPlugIn" /\ state.scheduledStartTime # NULL) =>
        LET mins == hoursNeededMins(config, soc, config.targetSOC)
            deadline == NextOccurrence(
                timeToMinutes(config.readyByHour, config.readyByMinute), cjNow)
            s == state.scheduledStartTime
            startAt == IF s < cjNow THEN s + 1440 ELSE s
        IN  (deadline - mins > cjNow) =>
                /\ startAt + mins <= deadline
                /\ (NextOccurrence(CheapStartMin(cjConfig), cjNow) + mins > deadline)
                       => (s = (deadline - mins) % 1440)

\* C7: deadline outranks cost.  Every schedule an optimizer returns in a
\* non-emergency situation with a ready-by deadline has start + minutesNeeded
\* at or before the next occurrence of the deadline, and when the cheap-window
\* start would finish after the deadline the start is deadline - minutesNeeded
\* on the 24 h clock.
C7_DeadlineOutranksCost ==
    /\ C7_OptimalStartMeetsDeadline
    /\ C7_ScheduleMeetsDeadline

\* the situation of C8: a deadline is set, the car is below target and
\* deadline - minutesNeeded is at or before now
C8_Situation(cfg, socv, now) ==
    /\ cfg.readyBy.set
    /\ socv < cfg.targetSOC
    /\ NextOccurrence(ReadyByMin(cfg), now) - cjMinutesNeeded(cfg, socv) <= now

\* C8: when deadline - minutesNeeded is at or before now the optimizer
\* reports the emergency with start = now, and a schedule check that runs in
\* that situation with the car plugged in, not charging and below target
\* executes 'charge start' in that same check.
C8_EmergencyStartsNow ==
    /\ (~cjOptimal.out.isNull
        /\ C8_Situation(cjOptimal.cfg, cjOptimal.soc, cjOptimal.now))
           => /\ cjOptimal.out.emergency
              /\ cjOptimal.out.hour * 60 + cjOptimal.out.minute = cjOptimal.now
    /\ (op = "cjCheckSchedule" /\ C8_Situation(cjConfig, soc, cjNow)
        /\ pilot /\ ~charging)
           => HasCmd(cmds, "charge start")

C10_NoStopBelowTarget ==
    ~(/\ op = "cjCheckSchedule"
      /\ cj.scheduledChargeActive
      /\ charging
      /\ soc < cjConfig.targetSOC
      /\ HasCmd(cmds, "charge stop"))

\* C11: a schedule check never executes 'charge start' when the SOC is
\* greater than or equal to the target SOC, whatever limits setLimits accepted.
C11_NoStartAtTarget ==
    ~(/\ op = "cjCheckSchedule"
      /\ soc >= cjConfig.targetSOC
      /\ HasCmd(cmds, "charge start"))

\* charging.js half of C12: a run of monitorSOC that finds the car charging
\* with the SOC at or above the session's target (100 in a manual session,
\* config.targetSOC otherwise) executes 'charge stop'.
C12_MonitorStopsAtTarget ==
    (/\ op = "cjMonitorSOC"
     /\ charging
     /\ soc >= (IF cj.manualChargeActive THEN 100 ELSE cjConfig.targetSOC))
        => HasCmd(cmds, "charge stop")

\* C12: on every tick of the v1.x script at which a session started through
\* the script is open (manual start or scheduled start), the car is charging
\* and the SOC is at or above the target, the tick executes 'charge stop'.
C12_TickStopsAtTarget ==
    [][(/\ op' = "tick"
        /\ state.manualOverride \/ state.scheduledChargeActive
        /\ charging
        /\ soc >= config.targetSOC)
           => HasCmd(cmds', "charge stop")]_vars

\* the step is the vehicle's charge-start event that follows a handler run
\* which executed 'charge start' while the car was not charging
C13_OwnChargeBegins ==
    /\ HasCmd(cmds, "charge start")
    /\ ~charging
    /\ charging'

\* charging.js half of C13: the vehicle.charge.start handler executes no
\* 'charge stop' when the charge answers the script's own 'charge start'.
C13_ChargeStartHandlerKeepsCharge ==
    [][C13_OwnChargeBegins => ~HasCmd(cmds', "charge stop")]_vars

\* C13: no start/stop loop.  When the vehicle.charge.start event answers a
\* 'charge start' the v1.x script itself executed (manual start, scheduled
\* start or recovery restart), the plug-in handler executes no 'charge stop'.
C13_NoStartStopLoop ==
    [][(C13_OwnChargeBegins /\ op' = "onPlugIn") => ~HasCmd(cmds', "charge stop")]_vars

\* charging.js half of C14: checkSchedule called while manualChargeActive is
\* set executes no command and leaves the mode flags, the session and the
\* configuration as they were.
C14_ManualCheckIsNoOpCJ ==
    [][(op' = "cjCheckSchedule" /\ cj.manualChargeActive)
           => (cmds' = <<>> /\ cj' = cj /\ cjConfig' = cjConfig)]_vars

\* C14: while a manual session is active (state.manualOverride) a call of
\* checkSchedule executes no vehicle command and changes no scheduler or
\* session state.
C14_ManualCheckIsNoOp ==
    [][(op' = "checkSchedule" /\ state.manualOverride)
           => (cmds' = <<>> /\ state' = state /\ config' = config)]_vars

\* checkSchedule has run in a manual session in which a stored schedule,
\* the plug and the SOC would otherwise allow a scheduled start
C14_Witness ==
    /\ op = "checkSchedule"
    /\ state.manualOverride
    /\ state.scheduledStartTime # NULL
    /\ pilot /\ ~charging
    /\ soc < config.targetSOC

ValidTime(t) == t.hour \in 0..23 /\ t.minute \in 0..59
ValidMinuteOfDay(t) == timeToMinutes(t.hour, t.minute) \in 0..1439

\* charging.js half of C15: whatever is given to setLimits, setReadyBy and
\* setSchedule, the stored target is in 20..100 and the stored times are valid.
C15_SettersKeepConfigValidCJ ==
    /\ cjConfig.targetSOC \in 20..100
    /\ ValidTime(cjConfig.readyBy) /\ ValidMinuteOfDay(cjConfig.readyBy)
    /\ ValidTime(cjConfig.cheapWindowStart) /\ ValidMinuteOfDay(cjConfig.cheapWindowStart)
    /\ ValidTime(cjConfig.cheapWindowEnd) /\ ValidMinuteOfDay(cjConfig.cheapWindowEnd)

\* C15: the configuration commands reject out-of-range input, so after any
\* sequence of setter calls the target SOC is in 20..100 and cheapWindowStart,
\* cheapWindowEnd and the ready-by time are valid minute-of-day values.
C15_SettersKeepConfigValid ==
    /\ C15_SettersKeepConfigValidCJ
    /\ config.targetSOC \in 20..100
    /\ config.readyByHour \in 0..23 /\ config.readyByMinute \in 0..59
    /\ ValidTime(config.cheapWindowStart) /\ ValidMinuteOfDay(config.cheapWindowStart)
    /\ ValidTime(config.cheapWindowEnd) /\ ValidMinuteOfDay(config.cheapWindowEnd)

CheapEndMin(cfg) == timeToMinutes(cfg.cheapWindowEnd.hour, cfg.cheapWindowEnd.minute)

\* a fixed-schedule check has run outside a manual session with the car
\* plugged in, not charging and inside the SOC limits: it executes 'charge start' exactly when the
\* membership test says the minute is inside the window
C16_CheckRan ==
    /\ op = "cjCheckSchedule"
    /\ ~cjConfig.readyBy.set
    /\ ~cj.manualChargeActive
    /\ pilot /\ ~charging
    /\ soc >= cjConfig.minSOCToCharge /\ soc < cjConfig.skipIfAbove

\* C16 as stated: for all window pairs, start = end included, a minute equal
\* to start is inside the window and a minute equal to end is outside.
C16_BoundariesAllPairs ==
    C16_CheckRan =>
        /\ (cjNow = CheapStartMin(cjConfig)) => HasCmd(cmds, "charge start")
        /\ (cjNow = CheapEndMin(cjConfig)) => ~HasCmd(cmds, "charge start")

\* C16 amended: for all window pairs with start # end, overnight windows
\* included, a minute equal to start is inside and a minute equal to end is
\* outside; a window with start = end is empty (its start minute is outside).
C16_Boundaries ==
    C16_CheckRan =>
        /\ (cjNow = CheapStartMin(cjConfig) /\ CheapStartMin(cjConfig) # CheapEndMin(cjConfig))
               => HasCmd(cmds, "charge start")
        /\ (cjNow = CheapEndMin(cjConfig)) => ~HasCmd(cmds, "charge start")

\* the check ran at the start minute of an overnight window and started
C16_Witness ==
    /\ C16_CheckRan
    /\ CheapStartMin(cjConfig) > CheapEndMin(cjConfig)
    /\ cjNow = CheapStartMin(cjConfig)
    /\ HasCmd(cmds, "charge start")

\* the energy figures reported by the start notifications of the last handler
C17_Reported == {i \in 1..Len(notes) : notes[i].kind \in {"scheduledStarted", "manualStarted"}}
C17_Target(i) == IF notes[i].kind = "manualStarted" THEN 100 ELSE cjConfig.targetSOC

\* C17: the energy needed is non-decreasing in the target SOC, non-increasing
\* in the current SOC and exactly 0, never negative, when the current SOC is
\* at or above the target SOC.
C17_EnergyNeeded ==
    \A i \in C17_Reported :
        LET e == notes[i].kWhNeeded
        IN  /\ e.den > 0
            /\ e = kWhNeeded(cjConfig, soc, C17_Target(i))
            /\ e.num <= kWhNeeded(cjConfig, soc, C17_Target(i) + 1).num
            /\ e.num >= kWhNeeded(cjConfig, soc + 1, C17_Target(i)).num
            /\ (soc >= C17_Target(i)) => e.num = 0

\* ------------------------------------------------------------------------
\* Deferred callbacks (v1.x script)
\* ------------------------------------------------------------------------

\* every invocation so far, in order
AllFired ==
    LET RECURSIVE Flat(_)
        Flat(k) == IF k = 0 THEN <<>> ELSE Flat(k - 1) \o timerLog[k]
    IN  Flat(Len(timerLog))

PendingIds == {state.pendingTimers[i].id : i \in 1..Len(state.pendingTimers)}

\* C18: a deferred callback is never invoked on a tick whose time is before
\* its due time, and it is invoked at most once: after it has fired, whether
\* it returned or threw, it is no longer in state.pendingTimers.
C18_FiredWhenDueAndOnce ==
    /\ \A i \in 1..Len(AllFired) :
          /\ AllFired[i].executeTime <= 0
          /\ AllFired[i].id \notin PendingIds
    /\ \A i, j \in 1..Len(AllFired) : i # j => AllFired[i].id # AllFired[j].id

\* a callback that threw and one that returned have fired, on different
\* ticks, and a timer is still pending
C18_Witness ==
    /\ Len(timerLog) >= 2
    /\ \E i \in 1..Len(timerLog[1]) : timerLog[1][i].threw
    /\ \E i \in 1..Len(timerLog[2]) : ~timerLog[2][i].threw
    /\ state.pendingTimers # <<>>

\* the callbacks invoked by the last tick
LastFired == IF timerLog = <<>> THEN <<>> ELSE timerLog[Len(timerLog)]

IdsOf(timers) == [i \in 1..Len(timers) |-> timers[i].id]

\* state.pendingTimers as the tick that is about to run finds it
AtTick == AdvanceClock(state).pendingTimers

IsDueEntry(t) == t.executeTime <= 0

\* C19: within one tick, all deferred callbacks that are due are invoked in
\* the order in which they were scheduled.
C19_DueInvokedInScheduleOrder ==
    [][op' = "timerTick" =>
          /\ \A i, j \in 1..Len(AtTick) : i < j => AtTick[i].id < AtTick[j].id
          /\ IdsOf(LastFired') = IdsOf(SelectSeq(AtTick, IsDueEntry))]_vars

\* one tick invoked the first and the third timer and left the second, which
\* was scheduled between them, pending
C19_Witness ==
    /\ op = "timerTick"
    /\ IdsOf(LastFired) = <<1, 3>>
    /\ 2 \in PendingIds

\* no retry closure ran to its end on the last tick (one that does may end
\* the session before the monitoring step looks at it)
NoRetryReturned(fired) ==
    \A i \in 1..Len(fired) : fired[i].callback = "retry" => fired[i].threw

\* C20: if a due deferred callback throws, every other callback due on the
\* same tick is still invoked on that tick, callbacks that are not yet due
\* stay pending, and the tick handler goes on to its monitoring step.
C20_ThrowIsContained ==
    [][(op' = "timerTick" /\ \E i \in 1..Len(LastFired') : LastFired'[i].threw) =>
          /\ \A i \in 1..Len(AtTick) :
                IF IsDueEntry(AtTick[i])
                THEN \E j \in 1..Len(LastFired') : LastFired'[j].id = AtTick[i].id
                ELSE \E j \in 1..Len(state'.pendingTimers) :
                        state'.pendingTimers[j] = AtTick[i]
          /\ (state.monitoring /\ NoRetryReturned(LastFired')) =>
                /\ (charging /\ soc >= config.targetSOC) => HasCmd(cmds', "charge stop")
                /\ (~charging /\ state.scheduledChargeActive) =>
                      (HasNote(notes', "interrupted") \/ HasNote(notes', "failed"))
                /\ (~charging /\ ~state.scheduledChargeActive) => ~state'.monitoring]_vars

\* a callback threw, a later one due on the same tick returned, a timer that
\* was not due is still pending and the monitoring step stopped the charge
C20_Witness ==
    /\ op = "timerTick"
    /\ \E i, j \in 1..Len(LastFired) : i < j /\ LastFired[i].threw /\ ~LastFired[j].threw
    /\ \E i \in 1..Len(state.pendingTimers) : state.pendingTimers[i].callback = "retry"
    /\ HasCmd(cmds, "charge stop")

\* ------------------------------------------------------------------------
\* Interruption recovery (v1.x script)
\* ------------------------------------------------------------------------

\* the backoff table of the specification, in milliseconds
BackoffMs(n) == CASE n = 1 -> 120000 [] n = 2 -> 300000 [] n = 3 -> 600000

\* the last handler counted an interruption
InterruptionCounted == \E i \in 1..Len(notes) : notes[i].kind = "interrupted"

\* C21: an interruption that raises the retry counter to n in {1, 2, 3}
\* schedules the retry 2, 5 or 10 minutes ahead and notifies 'attempt n/3';
\* a pending timer only gets closer to its due time by the ticker period, and
\* the restart attempt is not invoked while time is left on its timer.
C21_BackoffTable ==
    [][op' = "timerTick" =>
          /\ InterruptionCounted' =>
                /\ state'.retryCount = state.retryCount + 1
                /\ state'.retryCount \in 1..3
                /\ \A i \in 1..Len(notes') :
                      notes'[i].kind = "interrupted" => notes'[i].attempt = state'.retryCount
                /\ \E i \in 1..Len(state'.pendingTimers) :
                      /\ state'.pendingTimers[i].id = state'.retryTimerId
                      /\ state'.pendingTimers[i].id \notin PendingIds
                      /\ state'.pendingTimers[i].callback = "retry"
                      /\ state'.pendingTimers[i].executeTime = BackoffMs(state'.retryCount)
          /\ \A i \in 1..Len(state.pendingTimers), j \in 1..Len(state'.pendingTimers) :
                state'.pendingTimers[j].id = state.pendingTimers[i].id =>
                    state'.pendingTimers[j].executeTime =
                        state.pendingTimers[i].executeTime - TickMs
          /\ \A i \in 1..Len(LastFired') :
                LastFired'[i].callback = "retry" => LastFired'[i].executeTime <= 0]_vars

\* the retry of the first interruption fires on the second tick after it,
\* when its two minutes are over, and the same tick counts the third interruption
C21_Witness ==
    /\ op = "timerTick"
    /\ Len(timerLog) = 3 /\ timerLog[1] = <<>> /\ timerLog[2] = <<>>
    /\ \E i \in 1..Len(LastFired) :
          LastFired[i].callback = "retry" /\ LastFired[i].executeTime = 0
    /\ \E i \in 1..Len(notes) : notes[i].kind = "interrupted" /\ notes[i].attempt = 3

\* a closure of this kind was invoked by the last tick and ran to its end
Returned(fired, callback) ==
    \E i \in 1..Len(fired) : fired[i].callback = callback /\ ~fired[i].threw

\* C22: a recovery attempt issues 'climatecontrol on', defers 'climatecontrol
\* off' by 10 s and, from there, 'charge start' by 5 s more: each step is
\* issued by a deferred callback on a tick, the later step is only scheduled
\* by the earlier one, and no tick waits for a later step.
C22_WakeSequence ==
    [][op' = "timerTick" =>
          /\ \A j \in 1..Len(state'.pendingTimers) :
                LET t == state'.pendingTimers[j]
                IN  t.id \notin PendingIds =>
                      /\ t.callback = "climateOff" =>
                            /\ t.executeTime = 10000
                            /\ HasCmd(cmds', "climatecontrol on")
                            /\ Returned(LastFired', "retry")
                      /\ t.callback = "wakeDone" =>
                            /\ t.executeTime = 5000
                            /\ HasCmd(cmds', "climatecontrol off")
                            /\ Returned(LastFired', "climateOff")
          /\ HasCmd(cmds', "climatecontrol on") =>
                \E j \in 1..Len(state'.pendingTimers) :
                    /\ state'.pendingTimers[j].id \notin PendingIds
                    /\ state'.pendingTimers[j].callback = "climateOff"
          /\ Returned(LastFired', "climateOff") =>
                /\ HasCmd(cmds', "climatecontrol off")
                /\ \E j \in 1..Len(state'.pendingTimers) :
                      /\ state'.pendingTimers[j].id \notin PendingIds
                      /\ state'.pendingTimers[j].callback = "wakeDone"
          /\ Returned(LastFired', "wakeDone") => HasCmd(cmds', "charge start")
          /\ HasCmd(cmds', "charge start") => Returned(LastFired', "wakeDone")
          /\ \A i \in 1..Len(LastFired') : LastFired'[i].executeTime <= 0]_vars

\* one attempt, one step per tick: the retry closure, then the climate-off
\* closure it scheduled, then the wake-done closure that one scheduled
C22_Witness ==
    /\ op = "timerTick"
    /\ Len(timerLog) = 3
    /\ \A k \in 1..3 : Len(timerLog[k]) = 1 /\ timerLog[k][1].id = k /\ ~timerLog[k][1].threw
    /\ timerLog[1][1].callback = "retry"
    /\ timerLog[2][1].callback = "climateOff"
    /\ timerLog[3][1].callback = "wakeDone"
    /\ state.timerCounter = 3
    /\ HasCmd(cmds, "charge start")

\* C23: the 'charge start' that ends a wake sequence is issued only if, at
\* that moment, the vehicle is plugged in and SOC is below target.
C23_RestartRechecksAtCompletion ==
    [][(op' = "tick" /\ HasCmd(cmds', "charge start")) =>
          (pilot /\ soc < config.targetSOC)]_vars

\* C24: a tick counts a stop as an interruption (retry counter, interruption
\* notification, retry timer) only if charging has stopped and SOC is below
\* target; a scheduled charge found stopped at or above target is not counted.
C24_InterruptionOnlyBelowTarget ==
    [][(op' = "tick" /\ HasNote(notes', "interrupted")) =>
          (~charging /\ soc < config.targetSOC)]_vars

\* C25: when charging stops during a session started under manual override,
\* the next tick emits the 'no auto-retry' notification and returns to Idle
\* (monitoring off, scheduledChargeActive false).
C25_ManualStopNotifiesNoRetry ==
    [][(op = "chargeStop" /\ state.manualOverride /\ state.monitoring /\ op' = "tick") =>
          /\ HasNote(notes', "noAutoRetry")
          /\ ~state'.monitoring
          /\ ~state'.scheduledChargeActive]_vars

SessionIsReset ==
    /\ ~state.scheduledChargeActive
    /\ ~state.monitoring
    /\ state.retryCount = 0

\* C26: the retry session is reset on unplug, on reaching the target on a
\* monitored tick and on retry exhaustion: afterwards scheduledChargeActive
\* and monitoring are false and retryCount is 0; after unplug manualOverride
\* is false and the stored scheduled start and end are null as well.
C26_SessionReset ==
    /\ op = "onUnplug" =>
          /\ SessionIsReset
          /\ ~state.manualOverride
          /\ state.scheduledStartTime = NULL
          /\ state.scheduledEndTime = NULL
    /\ (op = "tick" /\ HasNote(notes, "charged")) => SessionIsReset
    /\ (op = "tick" /\ HasNote(notes, "failed")) => SessionIsReset

\* the fourth interruption of a session has just been given up, with timers
\* of that session still pending
C26_Witness ==
    /\ op = "tick"
    /\ HasNote(notes, "failed")
    /\ state.pendingTimers # <<>>

\* the other two cases happen: a monitored tick stopped the charge at target,
\* and the cable was pulled
C26_WitnessTarget == op = "tick" /\ HasNote(notes, "charged") /\ HasCmd(cmds, "charge stop")

C26_WitnessUnplug == op = "onUnplug" /\ ~pilot /\ state.pendingTimers = <<>>

\* ------------------------------------------------------------------------
\* Cost breakdown (charging.js)
\* ------------------------------------------------------------------------

CostRan == op = "calculateChargeCost"

\* the interval lies inside one instance of the cheap window
InsideOneInstance(cfg, startTime, endTime) ==
    LET ws == timeToMinutes(cfg.cheapWindowStart.hour, cfg.cheapWindowStart.minute)
        we == timeToMinutes(cfg.cheapWindowEnd.hour, cfg.cheapWindowEnd.minute)
        len == (we - ws + 1440) % 1440
    IN  /\ ws # we
        /\ \E day \in -1..2 :
              /\ day * 1440 + ws <= startTime
              /\ endTime <= day * 1440 + ws + len

\* C27: a charge interval that lies entirely inside one instance of the
\* (possibly overnight) cheap window, whatever its start minute within the
\* window, is reported with preWindowHours = postWindowHours = 0 and priced
\* wholly at the cheap rate.
C27_InsideWindowIsCheap ==
    (CostRan /\ InsideOneInstance(cjConfig, cjCost.startTime, cjCost.endTime)) =>
        /\ cjCost.out.preWindowHours = 0
        /\ cjCost.out.postWindowHours = 0
        /\ cjCost.out.totalCost =
              (cjCost.endTime - cjCost.startTime) * cjConfig.chargeRate10 * cjConfig.pricingCheap

\* C28: for every start <= end the three segments partition the interval:
\* they are >= 0 and add up to the duration, and totalCost is the standard
\* price on the time before and after the window plus the cheap price on the
\* time inside it.
C28_SegmentsPartition ==
    (CostRan /\ cjCost.startTime <= cjCost.endTime) =>
        LET r == cjCost.out
        IN  /\ r.preWindowHours >= 0 /\ r.cheapHours >= 0 /\ r.postWindowHours >= 0
            /\ r.preWindowHours + r.cheapHours + r.postWindowHours
                  = cjCost.endTime - cjCost.startTime
            /\ r.totalCost =
                  (r.preWindowHours + r.postWindowHours)
                      * cjConfig.chargeRate10 * cjConfig.pricingStandard
                  + r.cheapHours * cjConfig.chargeRate10 * cjConfig.pricingCheap

\* a session that begins before the window and ends after it
C28_Witness ==
    /\ CostRan
    /\ cjCost.out.preWindowHours > 0
    /\ cjCost.out.cheapHours > 0
    /\ cjCost.out.postWindowHours > 0

\* ------------------------------------------------------------------------
\* Degenerate optimizer inputs (charging.js)
\* ------------------------------------------------------------------------

\* C29: with a zero-length cheap window (cheapWindowStart == cheapWindowEnd)
\* or with no energy needed (current SOC >= target) the optimizer returns no
\* schedule.
C29_DegenerateInputsNoSchedule ==
    (op = "calculateOptimalStart"
     /\ (cjOptimal.cfg.cheapWindowStart = cjOptimal.cfg.cheapWindowEnd
         \/ cjOptimal.soc >= cjOptimal.cfg.targetSOC))
        => cjOptimal.out.isNull

\* ------------------------------------------------------------------------
\* One retry per interruption (v1.x script)
\* ------------------------------------------------------------------------

\* a retry timer is pending that the coming tick will not fire yet
RetryStillWaiting ==
    \E i \in 1..Len(state.pendingTimers) :
        /\ state.pendingTimers[i].callback = "retry"
        /\ state.pendingTimers[i].executeTime - TickMs > 0

\* C30: while a retry for an interruption is scheduled and has not fired, a
\* further tick on which charging is still off does not increment retryCount
\* and does not schedule another retry timer.
C30_InterruptionCountedOnce ==
    [][(op' = "tick" /\ RetryStillWaiting) =>
          /\ state'.retryCount = state.retryCount
          /\ state'.timerCounter = state.timerCounter
          /\ ~HasNote(notes', "interrupted")]_vars

\* ------------------------------------------------------------------------
\* Retry counter and manual override over a session (v1.x script)
\* ------------------------------------------------------------------------

\* C31: the retry limit counts consecutive failures: once a tick of a
\* scheduled session observes the vehicle charging again, retryCount is 0.
C31_RetryCountResetsWhenCharging ==
    [][(op' = "tick" /\ charging /\ state'.monitoring /\ state'.scheduledChargeActive) =>
          state'.retryCount = 0]_vars

\* C32: every 'climatecontrol on' issued by the recovery logic is eventually
\* followed by a 'climatecontrol off' as long as ticks keep arriving.
C32_ClimateOnLeadsToOff ==
    (op = "tick" /\ HasCmd(cmds, "climatecontrol on")) ~> HasCmd(cmds, "climatecontrol off")

\* C33: when a tick ends a manual session (target reached, or charging found
\* stopped), manualOverride becomes false.
C33_ManualSessionEndClearsOverride ==
    [][(op' = "tick" /\ state.manualOverride /\ state.monitoring /\ ~state'.monitoring) =>
          ~state'.manualOverride]_vars

\* charging.js: the vehicle.charge.stop handler clears the manual flag
C33_ChargeStopClearsManualCJ ==
    op = "cjOnChargeStop" => ~cj.manualChargeActive

\* ------------------------------------------------------------------------
\* Ready-by mode at the cheap-window start (charging.js)
\* ------------------------------------------------------------------------

\* C34: in ready-by mode, if charging from the cheap-window start finishes by
\* the deadline, the schedule check that runs at the cheap-window start with
\* the vehicle plugged in, not charging, outside any session and with the SOC
\* inside the limits and below the target starts the charge.
C34_StartsAtWindowStart ==
    [][(/\ op' = "cjCheckSchedule"
        /\ cjConfig.readyBy.set
        /\ ~cj.manualChargeActive /\ ~cj.scheduledChargeActive
        /\ pilot /\ ~charging
        /\ soc >= cjConfig.minSOCToCharge
        /\ soc < cjConfig.skipIfAbove /\ soc < cjConfig.targetSOC
        /\ cjNow = CheapStartMin(cjConfig)
        /\ cjNow + cjMinutesNeeded(cjConfig, soc)
              <= NextOccurrence(ReadyByMin(cjConfig), cjNow))
          => HasCmd(cmds', "charge start")]_vars

\* ------------------------------------------------------------------------
\* Scheduled start time (v1.x script)
\* ------------------------------------------------------------------------

\* minutes from the stored scheduled start to the time of the check
MinutesPastStart == (cjNow - state.scheduledStartTime + 1440) % 1440

\* C35: checkSchedule executes the scheduled 'charge start' only at a check
\* whose time is at or after the stored scheduled start minute and at most 30
\* minutes after it.
C35_NoStartBeforeSchedule ==
    (op = "checkSchedule" /\ HasCmd(cmds, "charge start")) => MinutesPastStart <= 30

\* ------------------------------------------------------------------------
\* Optimizer result fields (charging.js)
\* ------------------------------------------------------------------------

\* C36: in every result of calculateOptimalStart overflowBefore +
\* overflowAfter does not exceed the charge duration, and overflowCost =
\* (overflowBefore + overflowAfter) x chargeRate x standardPrice.
C36_OverflowWithinDuration ==
    ~cjOptimal.out.isNull =>
        LET r == cjOptimal.out
            cfg == cjOptimal.cfg
        IN  /\ r.overflowBefore + r.overflowAfter <= cjMinutesNeeded(cfg, cjOptimal.soc)
            /\ r.overflowCost =
                  (r.overflowBefore + r.overflowAfter) * cfg.chargeRate10 * cfg.pricingStandard

\* the scheduled start made by this step returned false
ScheduledStartFailed ==
    /\ op' = "cjCheckSchedule"
    /\ HasNote(notes', "cannotStart") \/ HasNote(notes', "startFailed")

\* C37: when a scheduled start returns false (safety check failed, error
\* string or thrown command), afterwards scheduledChargeActive is false and
\* manualChargeActive and chargingSession.active have their prior values.
C37_FailedScheduledStartRestoresFlags ==
    [][ScheduledStartFailed =>
          /\ ~cj'.scheduledChargeActive
          /\ cj'.manualChargeActive = cj.manualChargeActive
          /\ cj'.sessionActive = cj.sessionActive]_vars

\* C37, the flag alone: a failed scheduled start leaves scheduledChargeActive false
C37_FlagClearedAfterFailure ==
    [][ScheduledStartFailed => ~cj'.scheduledChargeActive]_vars

\* the plug-in handler has stored the result of calculateSchedule
ScheduleStored == op = "onPlugIn" /\ HasNote(notes, "scheduled")

\* C38: for current < target calculateSchedule returns scheduledStartMin and
\* scheduledEndMin in 0..1439 with scheduledEndMin congruent to
\* scheduledStartMin + ceil(hoursNeeded x 60) modulo 1440, also for charges
\* that need more than 24 hours.
C38_ScheduleWithinDay ==
    ScheduleStored =>
        /\ state.scheduledStartTime \in 0..1439
        /\ state.scheduledEndTime \in 0..1439
        /\ (state.scheduledEndTime - state.scheduledStartTime
               - hoursNeededMins(config, soc, config.targetSOC)) % 1440 = 0

\* C38, the congruence alone
C38_EndCongruent ==
    ScheduleStored =>
        (state.scheduledEndTime - state.scheduledStartTime
           - hoursNeededMins(config, soc, config.targetSOC)) % 1440 = 0

\* C38, for charges of at most 24 hours
C38_WithinDayUpTo24h ==
    ScheduleStored /\ hoursNeededMins(config, soc, config.targetSOC) <= 1440 =>
        /\ state.scheduledStartTime \in 0..1439
        /\ state.scheduledEndTime \in 0..1439

\* C39: in every result of calculateOptimalStart no two of emergency,
\* startEarly and fitsInWindow are true together, and fitsInWindow is true
\* only when overflowBefore = 0 and overflowAfter = 0.
C39_OutcomesExclusive ==
    ~cjOptimal.out.isNull =>
        LET r == cjOptimal.out
        IN  /\ ~(r.emergency /\ r.startEarly)
            /\ ~(r.emergency /\ r.fitsInWindow)
            /\ ~(r.startEarly /\ r.fitsInWindow)
            /\ r.fitsInWindow => r.overflowBefore = 0 /\ r.overflowAfter = 0

\* C39, the part about emergency and startEarly
C39_EmergencyExcludesStartEarly ==
    ~cjOptimal.out.isNull => ~(cjOptimal.out.emergency /\ cjOptimal.out.startEarly)

\* C39, the weakest reading of the exclusion: the three are not all true at once
C39_NotAllThree ==
    ~cjOptimal.out.isNull =>
        ~(cjOptimal.out.emergency /\ cjOptimal.out.startEarly /\ cjOptimal.out.fitsInWindow)

\* C39, the part about the overflow fields
C39_FitsMeansNoOverflow ==
    ~cjOptimal.out.isNull /\ cjOptimal.out.fitsInWindow =>
        cjOptimal.out.overflowBefore = 0 /\ cjOptimal.out.overflowAfter = 0

\* C40: state.manualOverride and state.scheduledChargeActive are never both true
C40_ManualAndScheduledExclusive ==
    ~(state.manualOverride /\ state.scheduledChargeActive)

\* a manual start was made while a schedule is stored
C40_Witness ==
    /\ op = "start"
    /\ state.manualOverride
    /\ ~state.scheduledChargeActive
    /\ state.scheduledStartTime # NULL

\* a scheduled charge is active
C40_WitnessScheduled ==
    op = "checkSchedule" /\ state.scheduledChargeActive /\ ~state.manualOverride
====
